---- MODULE Spec2Model ----
(***************************************************************************)
(* Live captioning supervisor of src/features/SpeechToText.tsx (the        *)
(* SoundAlerts component of src/features/TextToSpeech.tsx has the same     *)
(* cleanup / startListening / stopListening code).                         *)
(*                                                                         *)
(* One component instance is modelled.  Every call of startListening is an *)
(* invocation i in Starts with its own closure variables (stream,          *)
(* inputCtx, sessionPromise); the refs of the component are shared by all  *)
(* invocations.  Browser and SDK objects are modelled by their life-cycle  *)
(* status.  The event loop is single threaded: each action is one task     *)
(* (a click, a promise continuation, a callback) run to completion.        *)
(*                                                                         *)
(* The SDK behind ai.live.connect is not part of the repository.  The code *)
(* relies on two things only: onopen is called before the connect promise  *)
(* resolves, and callbacks arrive as tasks of their own.  Whether the      *)
(* promise resolves in the task that ran onopen or in a later one is left  *)
(* open (sdkDefers); onaudioprocess chains its send on the promise exactly *)
(* because the promise may still be pending when a frame arrives.          *)
(***************************************************************************)
EXTENDS Integers, Sequences, FiniteSets, TLC

\* ---------------------------------------------------------------- bounds
MaxStarts == 2      \* calls of startListening on one component instance
MaxFrames == 1      \* audio frames queued or sent, over all invocations
MaxLen == 2         \* characters kept in the modelled transcript
MaxBurst == 2       \* audio frames of the single start of StreamSpec
MaxText == 3        \* characters of the transcript of StreamSpec
MaxAlerts == 11     \* alerts raised by one SoundAlerts component
MaxParts == 2       \* parts of one modelTurn message
TickMs == 3000      \* milliseconds by which the modelled clock advances
MaxMeds == 2        \* medications ever added to the planner
MaxDays == 1        \* midnights the running application lives through
FrameLen == 2       \* samples of one encoded audio frame
SampleSteps == 4    \* sample values per unit: a sample is q / SampleSteps
MaxSample == 6      \* largest |q| of a sample
MaxRuns == 3        \* runs of the camera effect of one CameraModule
MaxCalls == 4       \* calls of speakResult on one component

\* ------------------------------------------------------ program constants
LiveCap == 3        \* .slice(0, 3) of setSoundAlerts
HistoryCap == 10    \* .slice(0, 10) of setAlertHistory
AlertTtl == 6000    \* setTimeout(..., 6000), in milliseconds

Starts == 1..MaxStarts

\* inputTranscription.text values of inbound messages; <<>> is the empty
\* (falsy) text, "other" messages carry no inputTranscription at all
Texts == { <<>>, <<"a">>, <<"a", " ">> }
Messages == [kind : {"transcription"}, text : Texts]
              \cup { [kind |-> "other", text |-> <<>>] }

VARIABLES
  sdkDefers,        \* the SDK resolves the connect promise in a later task
                    \* than the one that ran onopen
  mounted,          \* the component is mounted
  isListening,      \* useState isListening
  transcription,    \* useState transcription (sequence of characters)
  audioContextRef,  \* refs: 0 is null, i is the object made by invocation i
  streamRef,
  sessionRef,
  processorRef,
  pc,               \* position of each startListening invocation
  stream,           \* MediaStream of invocation i: none / live / stopped
  ctx,              \* AudioContext of invocation i: none / open / closed
  processor,        \* ScriptProcessorNode: none / connected / disconnected
  session,          \* live session: none/connecting/open/closing/closed/failed
  queued,           \* frames whose .then(send) waits on sessionPromise i
  sent,             \* frames handed to an open session by sendRealtimeInput
  closeCalls,       \* history: close() calls on session i
  trackStops,       \* history: track.stop() calls on stream i
  ctxCloses,        \* history: close() calls on AudioContext i
  disconnects,      \* history: disconnect() calls on processor i
  feature,          \* which component the instance is: "captions" is
                    \* SpeechToText, "alerts" is SoundAlerts
  sendThrows,       \* the SDK's sendRealtimeInput throws on a session that
                    \* is no longer open (instead of dropping the frame)
  unhandled,        \* an unhandled promise rejection was reported
  lastTurn,         \* history: the last message handled was a turnComplete
  soundAlerts,      \* useState soundAlerts: sequence of [id, text]
  alertHistory,     \* useState alertHistory: sequence of texts
  alertIdCounter,   \* alertIdCounter.current
  timers,           \* pending setTimeout callbacks: set of [id, age], age in
                    \* milliseconds since the timer was set
  clock,            \* wall clock read by the reminder poller: [h, m]
  stored,           \* localStorage item assistme_meds: [present, meds],
                    \* meds a sequence of medications [id, time]
  medsAdded,        \* medications added so far (ids are Date.now() strings)
  triggeredMeds,    \* triggeredMedsRef.current: set of trigger ids
  activeAlarm,      \* useState activeAlarm: <<>> is null, else <<medication>>
  fired,            \* history: alarms raised per <<medication id, HH:MM>>
  day,              \* midnights passed since the App was mounted
  ticks,            \* history: poller ticks since the clock or the store
                    \* last changed (counted up to the number of stored
                    \* medications due at this minute)
  firedDay,         \* history: day of the last alarm per <<id, HH:MM>>, or -1
  appMounted,       \* the App component is mounted
  alarmIntervalRef, \* alarmIntervalRef.current: 0 is null, else a handle
  alarmAudioCtxRef, \* alarmAudioCtxRef.current: 0 is null, else a context
  alarmIntervals,   \* beep intervals set and not cleared
  alarmCtxs,        \* alarm audio contexts created and not closed
  loopsMade,        \* calls of playAlarmSound so far
  speech,           \* speakAlarmMessage calls in order: "pending",
                    \* "playing", "ended", "silent" or "failed"
  frame,            \* inputData of one onaudioprocess event, each sample in
                    \* units of 1 / SampleSteps
  pcm,              \* the Int16Array made of it, <<>> before the event
  camMounted,       \* the CameraModule is mounted
  isActive,         \* useState isActive of CameraModule
  facingMode,       \* useState facingMode
  hasPermission,    \* useState hasPermission: "null", "true" or "false"
  camRuns,          \* the runs of the camera effect in order, each with its
                    \* getUserMedia request (req), the stream of its closure
                    \* (stream) and whether its cleanup has run (cleaned)
  srcObject,        \* videoRef.current.srcObject: 0 is null, else the run
                    \* whose stream is attached
  plannerMounted,   \* the MedicinePlanner is mounted
  meds,             \* useState meds of the committed render
  pendingLoad,      \* the update setMeds(JSON.parse(saved)) queued by the
                    \* mount effect and not yet rendered: <<>> or <<list>>
  heldAtMount,      \* history: the medications stored when the planner was
                    \* last mounted
  hasResult,        \* useState result of ObjectRecognition is not null
  isSpeaking,       \* useState isSpeaking
  utterances,       \* the text-to-speech requests started by speakResult in
                    \* order: "pending", "playing", "ended", "silent" (no
                    \* audio data) or "failed"
  speakCalls        \* history: calls of speakResult so far

refs == <<audioContextRef, streamRef, sessionRef, processorRef>>
objs == <<stream, ctx, processor, session>>
calls == <<closeCalls, trackStops, ctxCloses, disconnects>>
audio == <<queued, sent>>
alertVars == <<soundAlerts, alertHistory, alertIdCounter, timers>>
alarmSound == <<alarmIntervalRef, alarmAudioCtxRef, alarmIntervals, alarmCtxs,
                loopsMade>>
pollVars == <<clock, stored, medsAdded, triggeredMeds, activeAlarm, fired, day,
              ticks, firedDay, appMounted, alarmSound, speech>>
encVars == <<frame, pcm>>
camVars == <<camMounted, isActive, facingMode, hasPermission, camRuns, srcObject>>
planVars == <<plannerMounted, meds, pendingLoad, heldAtMount>>
speakVars == <<hasResult, isSpeaking, utterances, speakCalls>>
newVars == <<encVars, camVars, planVars, speakVars>>
\* what the supervisor's handlers never touch
others == <<feature, sendThrows, alertVars, pollVars, newVars>>
rest == <<others, lastTurn>>
quiet == <<rest, unhandled>>
vars == <<sdkDefers, mounted, isListening, transcription, refs, pc, objs, audio,
          calls, quiet>>

Features == {"captions", "alerts"}

\* the reminder poller's clock values: two hours and two minutes of a day
Hours == {8, 23}
Minutes == {0, 59}
Clocks == [h : Hours, m : Minutes]

\* the frames of an onaudioprocess event
Samples == -MaxSample..MaxSample
Frames == [1..FrameLen -> Samples]
Silence == [k \in 1..FrameLen |-> 0]

\* String(n).padStart(2, '0'), for n < 100
Pad2(n) ==
  IF n < 10 THEN <<"0", ToString(n)>>
  ELSE <<ToString(n \div 10), ToString(n % 10)>>

\* `${String(now.getHours()).padStart(2, '0')}:${String(now.getMinutes())...}`
HHmm(c) == Pad2(c.h) \o <<":">> \o Pad2(c.m)

\* values of the planner's <input type="time">
Times == { HHmm(c) : c \in Clocks }

\* Date.now().toString() of the n-th addMed
MedId(n) == <<ToString(n)>>

\* `${dueMed.id}-${currentHHmm}`
TriggerId(id, t) == id \o <<"-">> \o t

Keys == { <<MedId(n), t>> : n \in 1..MaxMeds, t \in Times }

\* the components right after construction (first render)
Constructed ==
  /\ mounted = TRUE
  /\ isListening = FALSE
  /\ transcription = <<>>
  /\ audioContextRef = 0 /\ streamRef = 0 /\ sessionRef = 0 /\ processorRef = 0
  /\ pc = [i \in Starts |-> "idle"]
  /\ stream = [i \in Starts |-> "none"]
  /\ ctx = [i \in Starts |-> "none"]
  /\ processor = [i \in Starts |-> "none"]
  /\ session = [i \in Starts |-> "none"]
  /\ queued = [i \in Starts |-> <<>>]
  /\ sent = [i \in Starts |-> <<>>]
  /\ closeCalls = [i \in Starts |-> 0]
  /\ trackStops = [i \in Starts |-> 0]
  /\ ctxCloses = [i \in Starts |-> 0]
  /\ disconnects = [i \in Starts |-> 0]
  /\ unhandled = FALSE
  /\ lastTurn = FALSE
  /\ soundAlerts = <<>> /\ alertHistory = <<>> /\ alertIdCounter = 0
  /\ timers = {}
  /\ clock \in Clocks
  /\ stored = [present |-> FALSE, meds |-> <<>>]
  /\ medsAdded = 0
  /\ triggeredMeds = {}
  /\ activeAlarm = <<>>
  /\ fired = [k \in Keys |-> 0]
  /\ day = 0 /\ ticks = 0
  /\ firedDay = [k \in Keys |-> -1]
  /\ appMounted = TRUE
  /\ alarmIntervalRef = 0 /\ alarmAudioCtxRef = 0
  /\ alarmIntervals = {} /\ alarmCtxs = {}
  /\ loopsMade = 0
  /\ speech = <<>>
  /\ frame \in Frames
  /\ pcm = <<>>
  /\ camMounted = TRUE /\ isActive = TRUE /\ facingMode = "environment"
  /\ hasPermission = "null"
  /\ camRuns = <<[req |-> "pending", stream |-> "none", cleaned |-> FALSE]>>
  /\ srcObject = 0
  /\ plannerMounted = FALSE /\ meds = <<>> /\ pendingLoad = <<>>
  /\ heldAtMount = <<>>
  /\ hasResult = FALSE /\ isSpeaking = FALSE /\ utterances = <<>>
  /\ speakCalls = 0

\* the captioning component, with an SDK whose sendRealtimeInput drops a
\* frame given to a session that is no longer open; the reminder poller's
\* clock stands still
Init ==
  /\ Constructed
  /\ frame = Silence
  /\ sdkDefers \in BOOLEAN
  /\ sendThrows = FALSE
  /\ feature = "captions"
  /\ clock = [h |-> 8, m |-> 0]

\* ------------------------------------------------------------ helpers

\* f with f[r] replaced by v when the ref r is not null
Upd(f, r, v) == IF r = 0 THEN f ELSE [f EXCEPT ![r] = v]
Inc(f, r) == IF r = 0 THEN f ELSE [f EXCEPT ![r] = @ + 1]

\* session.close(): an open or connecting socket starts closing (its close
\* event is delivered later, as its own task); closing a socket that is
\* already closing or closed changes nothing
Closed(s) == IF s \in {"open", "connecting"} THEN "closing" ELSE s

\* a separator that is inserted before every text
SeparatorAlways(prev) == <<" ">>

\* the separator of onmessage: ' ' iff prev is non-empty and does not end
\* with ' '
Separator(prev) ==
  IF Len(prev) > 0 /\ prev[Len(prev)] # " " THEN <<" ">> ELSE <<>>


\* ------------------------------------------------------------ cleanup

\* cleanup() without `sessionRef.current = null`
CleanupKeepsSessionRef(sess) ==
  /\ processor' = Upd(processor, processorRef, "disconnected")
  /\ disconnects' = Inc(disconnects, processorRef)
  /\ processorRef' = 0
  /\ stream' = Upd(stream, streamRef, "stopped")
  /\ trackStops' = Inc(trackStops, streamRef)
  /\ streamRef' = 0
  /\ ctx' = Upd(ctx, audioContextRef, "closed")
  /\ ctxCloses' = Inc(ctxCloses, audioContextRef)
  /\ audioContextRef' = 0
  /\ session' = IF sessionRef = 0 THEN sess
                ELSE [sess EXCEPT ![sessionRef] = Closed(sess[sessionRef])]
  /\ closeCalls' = Inc(closeCalls, sessionRef)
  /\ sessionRef' = sessionRef
  /\ isListening' = FALSE
  /\ transcription' = transcription

\* cleanup() that also resets the caption text
CleanupClearsTranscript(sess) ==
  /\ processor' = Upd(processor, processorRef, "disconnected")
  /\ disconnects' = Inc(disconnects, processorRef)
  /\ processorRef' = 0
  /\ stream' = Upd(stream, streamRef, "stopped")
  /\ trackStops' = Inc(trackStops, streamRef)
  /\ streamRef' = 0
  /\ ctx' = Upd(ctx, audioContextRef, "closed")
  /\ ctxCloses' = Inc(ctxCloses, audioContextRef)
  /\ audioContextRef' = 0
  /\ session' = IF sessionRef = 0 THEN sess
                ELSE [sess EXCEPT ![sessionRef] = Closed(sess[sessionRef])]
  /\ closeCalls' = Inc(closeCalls, sessionRef)
  /\ sessionRef' = 0
  /\ isListening' = FALSE
  /\ transcription' = <<>>

\* cleanup(), run when the sessions have the statuses sess (the caller may
\* just have changed one of them).  It sets only isListening: the caption
\* text is left as it is.
Cleanup(sess) ==
  /\ processor' = Upd(processor, processorRef, "disconnected")
  /\ disconnects' = Inc(disconnects, processorRef)
  /\ processorRef' = 0
  /\ stream' = Upd(stream, streamRef, "stopped")
  /\ trackStops' = Inc(trackStops, streamRef)
  /\ streamRef' = 0
  /\ ctx' = Upd(ctx, audioContextRef, "closed")
  /\ ctxCloses' = Inc(ctxCloses, audioContextRef)
  /\ audioContextRef' = 0
  /\ session' = IF sessionRef = 0 THEN sess
                ELSE [sess EXCEPT ![sessionRef] = Closed(sess[sessionRef])]
  /\ closeCalls' = Inc(closeCalls, sessionRef)
  /\ sessionRef' = 0
  /\ isListening' = FALSE
  /\ transcription' = transcription

\* ------------------------------------------------------------ actions

\* click on the button while it shows START: startListening() runs up to
\* its first await
ClickStart(i) ==
  /\ mounted /\ ~isListening
  /\ pc[i] = "idle"
  /\ \A j \in Starts : j < i => pc[j] # "idle"
  /\ pc' = [pc EXCEPT ![i] = "awaitMic"]
  /\ UNCHANGED <<quiet, sdkDefers, mounted, isListening, transcription, refs, objs, audio, calls>>

\* getUserMedia resolves: lines 56-116, up to `await sessionPromise`
MicGranted(i) ==
  /\ pc[i] = "awaitMic"
  /\ stream' = [stream EXCEPT ![i] = "live"]
  /\ streamRef' = i
  /\ ctx' = [ctx EXCEPT ![i] = "open"]
  /\ audioContextRef' = i
  /\ session' = [session EXCEPT ![i] = "connecting"]
  /\ pc' = [pc EXCEPT ![i] = "awaitConnect"]
  /\ UNCHANGED <<quiet, sdkDefers, mounted, isListening, transcription, sessionRef, processorRef,
                 processor, audio, calls>>

\* a catch block that only logs
MicDeniedNoCleanup(i) ==
  /\ pc[i] = "awaitMic"
  /\ pc' = [pc EXCEPT ![i] = "denied"]
  /\ UNCHANGED <<quiet, sdkDefers, mounted, isListening, transcription, refs, objs, audio, calls>>

\* getUserMedia rejects: the catch block
MicDenied(i) ==
  /\ pc[i] = "awaitMic"
  /\ pc' = [pc EXCEPT ![i] = "denied"]
  /\ Cleanup(session)
  /\ UNCHANGED <<quiet, sdkDefers, mounted, audio>>

\* callbacks.onopen of session i (a state setter of an unmounted component
\* does nothing).  Creating nodes on a closed AudioContext succeeds; such a
\* processor never gets an audio callback.  Unless the SDK defers it, the
\* connect promise resolves in the same task and startListening resumes
\* after its await: no frame can have been queued in between.
OnOpen(i) ==
  /\ session[i] = "connecting"
  /\ session' = [session EXCEPT ![i] = "open"]
  /\ isListening' = mounted
  /\ processor' = [processor EXCEPT ![i] = "connected"]
  /\ processorRef' = i
  /\ IF sdkDefers
       THEN UNCHANGED <<sessionRef, pc>>
       ELSE /\ sessionRef' = i
            /\ pc' = [pc EXCEPT ![i] = "done"]
  /\ UNCHANGED <<quiet, sdkDefers, mounted, transcription, audioContextRef, streamRef,
                 stream, ctx, audio, calls>>

\* frames of invocation i so far: a frame is numbered by its position in
\* the capture order of its processor
Captured(i) == Len(queued[i]) + Len(sent[i])

RECURSIVE CapturedUpTo(_)
CapturedUpTo(n) == IF n = 0 THEN 0 ELSE Captured(n) + CapturedUpTo(n - 1)

\* the .then callback of onaudioprocess for each frame of fs, in order, once
\* sessionPromise i is resolved: s.sendRealtimeInput({ media: pcmBlob }).
\* An open session takes the frame; a closing or closed one drops it.
\* Where the SDK throws instead (sendThrows), the promise made by .then
\* rejects: SoundAlerts chains a .catch on it (TextToSpeech.tsx 168-170,
\* 333-337), SpeechToText chains nothing, so the rejection is unhandled.
Send(i, fs) ==
  /\ sent' = IF session[i] = "open" THEN [sent EXCEPT ![i] = @ \o fs] ELSE sent
  /\ unhandled' = (unhandled \/ (/\ fs # <<>> /\ session[i] # "open"
                                 /\ sendThrows /\ feature = "captions"))

RECURSIVE Reverse(_)
Reverse(q) == IF q = <<>> THEN <<>> ELSE Append(Reverse(Tail(q)), Head(q))

\* a resolution that runs the queued .then callbacks last-in first-out
ConnectResolvedLifo(i) ==
  /\ pc[i] = "awaitConnect"
  /\ processor[i] # "none"
  /\ sessionRef' = i
  /\ pc' = [pc EXCEPT ![i] = "done"]
  /\ Send(i, Reverse(queued[i]))
  /\ queued' = [queued EXCEPT ![i] = <<>>]
  /\ UNCHANGED <<rest, sdkDefers, mounted, isListening, transcription, audioContextRef, streamRef,
                 processorRef, objs, calls>>

\* sessionPromise of invocation i resolves in a task after the one of
\* onopen: the .then callbacks queued by onaudioprocess run and
\* startListening resumes after its await
ConnectResolved(i) ==
  /\ pc[i] = "awaitConnect"
  /\ processor[i] # "none"
  /\ sessionRef' = i
  /\ pc' = [pc EXCEPT ![i] = "done"]
  /\ Send(i, queued[i])
  /\ queued' = [queued EXCEPT ![i] = <<>>]
  /\ UNCHANGED <<rest, sdkDefers, mounted, isListening, transcription, audioContextRef, streamRef,
                 processorRef, objs, calls>>

\* sessionPromise of invocation i rejects: the catch block
ConnectRejected(i) ==
  /\ pc[i] = "awaitConnect"
  /\ session[i] = "connecting"
  /\ pc' = [pc EXCEPT ![i] = "failed"]
  /\ Cleanup([session EXCEPT ![i] = "failed"])
  /\ UNCHANGED <<quiet, sdkDefers, mounted, audio>>

\* processor.onaudioprocess of invocation i: encode the frame and chain the
\* send on sessionPromise.  The callback reads nothing of the stream's
\* tracks: a source whose track has ended delivers silence.
Capture(i) ==
  /\ processor[i] = "connected" /\ ctx[i] = "open"
  /\ IF pc[i] = "done"
       THEN /\ Send(i, <<Captured(i) + 1>>)
            /\ queued' = queued
       ELSE /\ queued' = [queued EXCEPT ![i] = Append(@, Captured(i) + 1)]
            /\ sent' = sent
            /\ unhandled' = unhandled
  /\ UNCHANGED <<rest, sdkDefers, mounted, isListening, transcription, refs, pc, objs, calls>>

\* an audio callback, while the model's budget of frames lasts
AudioProcess(i) == CapturedUpTo(MaxStarts) < MaxFrames /\ Capture(i)

\* the same, with the budget of a single start
AudioBurst(i) == CapturedUpTo(MaxStarts) < MaxBurst /\ Capture(i)

\* the microphone is lost (unplugged, revoked): the track of stream i ends.
\* startListening registers no listener on the track or the stream
\* (lines 55-56), so no code of the component runs.
TrackEnded(i) ==
  /\ stream[i] = "live"
  /\ stream' = [stream EXCEPT ![i] = "ended"]
  /\ UNCHANGED <<quiet, sdkDefers, mounted, isListening, transcription, refs, pc,
                 ctx, processor, session, audio, calls>>

\* setTranscription(prev => prev + separator + newText) for a message with a
\* non-empty inputTranscription text; other messages leave the transcript
NewTranscription(prev, m) ==
  IF m.kind = "transcription" /\ m.text # <<>>
    THEN prev \o Separator(prev) \o m.text
    ELSE prev

\* callbacks.onmessage of session i in SpeechToText (state setters of an
\* unmounted component do nothing)
Receive(i, m) ==
  /\ feature = "captions"
  /\ session[i] = "open"
  /\ transcription' = IF mounted THEN NewTranscription(transcription, m)
                      ELSE transcription
  /\ lastTurn' = (m.kind = "turnComplete")
  /\ UNCHANGED <<others, unhandled, sdkDefers, mounted, isListening, refs, pc, objs, audio, calls>>

\* a message arrives, while the transcript fits the model's bound
OnMessage(i, m) ==
  Len(NewTranscription(transcription, m)) <= MaxLen /\ Receive(i, m)

\* the same, with the bound of StreamSpec
OnCaption(i, m) ==
  Len(NewTranscription(transcription, m)) <= MaxText /\ Receive(i, m)

\* callbacks.onerror of session i: the socket failed and is going down
OnError(i) ==
  /\ session[i] \in {"connecting", "open"}
  /\ Cleanup([session EXCEPT ![i] = "closing"])
  /\ UNCHANGED <<quiet, sdkDefers, mounted, pc, audio>>

\* callbacks.onclose of session i: closed by the remote end, or the close
\* event that follows close() or an error
OnClose(i) ==
  /\ session[i] \in {"open", "closing"}
  /\ Cleanup([session EXCEPT ![i] = "closed"])
  /\ UNCHANGED <<quiet, sdkDefers, mounted, pc, audio>>

\* click on the button while it shows STOP: stopListening()
StopListening ==
  /\ mounted /\ isListening
  /\ Cleanup(session)
  /\ UNCHANGED <<quiet, sdkDefers, mounted, pc, audio>>

\* clearText()
ClearText ==
  /\ mounted /\ transcription # <<>>
  /\ transcription' = <<>>
  /\ UNCHANGED <<quiet, sdkDefers, mounted, isListening, refs, pc, objs, audio, calls>>

\* the component is unmounted: the effect's cleanup function runs
Unmount ==
  /\ mounted
  /\ mounted' = FALSE
  /\ Cleanup(session)
  /\ UNCHANGED <<quiet, sdkDefers, pc, audio>>

Next ==
  \/ \E i \in Starts : ClickStart(i)
  \/ \E i \in Starts : MicGranted(i)
  \/ \E i \in Starts : MicDenied(i)
  \/ \E i \in Starts : OnOpen(i)
  \/ \E i \in Starts : ConnectResolved(i)
  \/ \E i \in Starts : ConnectRejected(i)
  \/ \E i \in Starts : AudioProcess(i)
  \/ \E i \in Starts, m \in Messages : OnMessage(i, m)
  \/ \E i \in Starts : OnError(i)
  \/ \E i \in Starts : OnClose(i)
  \/ StopListening
  \/ ClearText
  \/ Unmount

Spec == Init /\ [][Next]_vars

\* ------------------------------------------------- one start, streaming
\* A single START click on either component, with either behaviour of the
\* SDK, a longer burst of audio frames, a longer transcript, texts that end
\* in a tab, turnComplete messages and the loss of the microphone.

StreamTexts == Texts \cup { <<"\t">> }
StreamMessages ==
  [kind : {"transcription"}, text : StreamTexts]
    \cup { [kind |-> "turnComplete", text |-> <<>>],
           [kind |-> "other", text |-> <<>>] }

StreamInit ==
  /\ Constructed
  /\ frame = Silence
  /\ sdkDefers \in BOOLEAN
  /\ sendThrows \in BOOLEAN
  /\ feature \in Features
  /\ clock = [h |-> 8, m |-> 0]

Single == {1}

StreamNext ==
  \/ \E i \in Single : ClickStart(i)
  \/ \E i \in Single : MicGranted(i)
  \/ \E i \in Single : MicDenied(i)
  \/ \E i \in Single : OnOpen(i)
  \/ \E i \in Single : ConnectResolved(i)
  \/ \E i \in Single : ConnectRejected(i)
  \/ \E i \in Single : AudioBurst(i)
  \/ \E i \in Single : TrackEnded(i)
  \/ \E i \in Single, m \in StreamMessages : OnCaption(i, m)
  \/ \E i \in Single : OnError(i)
  \/ \E i \in Single : OnClose(i)
  \/ StopListening
  \/ ClearText
  \/ Unmount

StreamSpec == StreamInit /\ [][StreamNext]_vars

TypeOK ==
  /\ sdkDefers \in BOOLEAN /\ mounted \in BOOLEAN /\ isListening \in BOOLEAN
  /\ transcription \in Seq({"a", " ", "\t"})
  /\ unhandled \in BOOLEAN /\ sendThrows \in BOOLEAN /\ feature \in Features
  /\ {audioContextRef, streamRef, sessionRef, processorRef} \subseteq 0..MaxStarts
  /\ \A i \in Starts :
       /\ pc[i] \in {"idle", "awaitMic", "awaitConnect", "done", "denied", "failed"}
       /\ stream[i] \in {"none", "live", "ended", "stopped"}
       /\ ctx[i] \in {"none", "open", "closed"}
       /\ processor[i] \in {"none", "connected", "disconnected"}
       /\ session[i] \in {"none", "connecting", "open", "closing", "closed", "failed"}

\* ------------------------------------------------------------ claims

Live(r) == {i \in Starts : r[i] \in {"live", "open", "connected"}}

\* the connect promise of invocation i resolves in this step
Resolves(i) == pc[i] = "awaitConnect" /\ pc'[i] = "done"

\* listening has ended: the button shows START (or the component is gone)
\* and no startListening call is waiting for the microphone or the
\* connection
Ended ==
  /\ ~isListening
  /\ \A i \in Starts : pc[i] \notin {"awaitMic", "awaitConnect"}

\* C1: in every state where listening has ended, capture and session are
\* torn down together: every processor is disconnected, every track
\* stopped, every audio context closed and no session is open.  (Stated
\* for an SDK that resolves connect in the task of onopen, as for C2, C5
\* and C6: the claim fails without any help from a deferred resolution.)
C1_TornDownTogether ==
  (~sdkDefers /\ Ended) =>
    \A i \in Starts :
      /\ stream[i] # "live" /\ ctx[i] # "open" /\ processor[i] # "connected"
      /\ session[i] # "open"

\* C2: when the connect promise of a call resolves after a cleanup has
\* already released the stream of that call, the handle it resolves with is
\* closed on resolution: it is not an open session afterwards.
C2_LateHandleClosed ==
  [][~sdkDefers =>
       \A i \in Starts :
         (Resolves(i) /\ stream[i] = "stopped") => session'[i] # "open"]_vars

\* C3: at every moment the component holds at most one live microphone
\* stream, at most one connected audio processor and at most one session
\* that is connecting or open.
C3_AtMostOneOfEach ==
  /\ Cardinality(Live(stream)) <= 1
  /\ Cardinality(Live(processor)) <= 1
  /\ Cardinality({i \in Starts : session[i] \in {"connecting", "open"}}) <= 1

\* C4: isListening is true only while some start has its microphone stream,
\* audio context and processor live and its session open.
C4_ActiveMeansReady ==
  isListening =>
    \E i \in Starts : /\ stream[i] = "live" /\ ctx[i] = "open"
                      /\ processor[i] = "connected" /\ session[i] = "open"

\* C5: once listening has ended, no frame is handed to a session by
\* sendRealtimeInput.
C5_NoSendAfterCleanup ==
  [][(~sdkDefers /\ Ended) => sent' = sent]_vars

\* C6: once listening has ended, no onmessage callback changes the caption
\* text.
C6_NoMessageAfterCleanup ==
  [][(~sdkDefers /\ Ended /\ \E i \in Starts, m \in Messages : OnMessage(i, m))
      => transcription' = transcription]_vars

\* C7: whatever the order and number of teardown triggers, every resource
\* is torn down at most once: close() is called at most once on each
\* session handle, each stream's tracks are stopped at most once, each
\* processor is disconnected at most once and each audio context is closed
\* at most once (a second close() of an AudioContext would reject).
C7_TeardownAtMostOnce ==
  \A i \in Starts :
    /\ closeCalls[i] <= 1 /\ trackStops[i] <= 1
    /\ disconnects[i] <= 1 /\ ctxCloses[i] <= 1

\* a session that was closed by cleanup, whose close event then ran cleanup
\* again, in a component that was also unmounted
C7_Witness ==
  \E i \in Starts :
    /\ ~mounted /\ pc[i] = "done" /\ session[i] = "closed"
    /\ closeCalls[i] = 1 /\ trackStops[i] = 1
    /\ disconnects[i] = 1 /\ ctxCloses[i] = 1

\* the supervisor holds nothing and shows START
Stopped ==
  /\ processorRef = 0 /\ streamRef = 0 /\ audioContextRef = 0 /\ sessionRef = 0
  /\ ~isListening

\* a handler that runs cleanup()
CleanupStep ==
  \/ StopListening
  \/ Unmount
  \/ \E i \in Starts : MicDenied(i) \/ ConnectRejected(i) \/ OnError(i) \/ OnClose(i)

\* C8: a cleanup of a supervisor that is already Stopped is a no-op: it
\* changes no stream, audio context or processor, calls close() on no
\* session, leaves every ref null, isListening false and the caption text
\* as it was.
C8_StopWhenStoppedIsNoOp ==
  [][(Stopped /\ CleanupStep)
      => /\ UNCHANGED <<stream, ctx, processor, calls, refs>>
         /\ ~isListening'
         /\ transcription' = transcription]_vars

\* a start whose permission was denied on a supervisor that never held
\* anything: the catch block's cleanup ran while Stopped, with captions of
\* an earlier session on screen
C8_Witness ==
  \E i \in Starts :
    /\ pc[i] = "denied" /\ mounted /\ transcription # <<>>
    /\ \A j \in Starts : j # i => session[j] = "closed"

\* C9: a startListening call whose microphone permission is denied never
\* gets a stream, an audio context, a processor (so no audio callback and
\* no frame) or a session connection, and isListening is false when the
\* call ends.
C9_DeniedStartsNothing ==
  [][\A i \in Starts :
       pc'[i] = "denied" =>
         /\ stream'[i] = "none" /\ ctx'[i] = "none" /\ processor'[i] = "none"
         /\ session'[i] = "none" /\ queued'[i] = <<>> /\ sent'[i] = <<>>
         /\ (MicDenied(i) => ~isListening')]_vars

\* permission was denied to one call while another call had connected
C9_Witness ==
  \E i, j \in Starts : pc[i] = "denied" /\ pc[j] = "done" /\ ~isListening

\* C10: when the connect promise of a call rejects, or its session errors,
\* the stream and the audio context that call had acquired are released,
\* isListening is false and no session starts connecting.
C10_FailureTearsDown ==
  [][\A i \in Starts :
       (ConnectRejected(i) \/ OnError(i)) =>
         /\ stream'[i] # "live" /\ ctx'[i] # "open"
         /\ ~isListening'
         /\ \A j \in Starts : session'[j] = "connecting" => session[j] = "connecting"]_vars

\* ------------------------------------------------------- sound alerts
\* SoundAlerts of src/features/TextToSpeech.tsx (lines 260-449; the variant
\* of lines 95-250 has the same onmessage).  Time advances in steps of
\* TickMs; a timer callback runs when its delay has elapsed, before the
\* clock moves on.

\* The text of the n-th alert the server sends: the tags are numbered, so
\* that the entries of the lists can be told apart.
TagText(n) == <<"[", ToString(n)>>

\* part.text of a modelTurn part: no text (an audio part), a text without
\* a bracket, a tag with blanks around it
PartKinds == {"none", "plain", "tag"}
PartText(k, n) ==
  CASE k = "none" -> <<>>
    [] k = "plain" -> <<"x">>
    [] k = "tag" -> <<" ">> \o TagText(n) \o <<" ">>

SeqsUpTo(S, n) == UNION { [1..k -> S] : k \in 0..n }

\* the parts of the kinds ks, the tags numbered from n on
RECURSIVE Fill(_, _)
Fill(ks, n) ==
  IF ks = <<>> THEN <<>>
  ELSE <<PartText(Head(ks), n)>>
         \o Fill(Tail(ks), IF Head(ks) = "tag" THEN n + 1 ELSE n)

\* inbound messages of the sound monitor after n alerts: a message with
\* serverContent.modelTurn.parts of the kinds ks, or a message without a
\* modelTurn
Shapes == SeqsUpTo(PartKinds, MaxParts)
ModelTurn(ks, n) == [kind |-> "modelTurn", parts |-> Fill(ks, n)]
NoModelTurn == [kind |-> "other", parts |-> <<>>]

\* a test that takes every part with a text
HasTagAnyText(t) == t # <<>>

\* part.text && part.text.includes('[')
HasTag(t) == t # <<>> /\ \E k \in 1..Len(t) : t[k] = "["

\* String.prototype.trim
RECURSIVE TrimStart(_)
TrimStart(t) ==
  IF t # <<>> /\ Head(t) \in {" ", "\t"} THEN TrimStart(Tail(t)) ELSE t
Trim(t) == Reverse(TrimStart(Reverse(TrimStart(t))))

\* the alert texts of the parts ps, in the order of the for loop
RECURSIVE Tags(_)
Tags(ps) ==
  IF ps = <<>> THEN <<>>
  ELSE (IF HasTag(Head(ps)) THEN <<Trim(Head(ps))>> ELSE <<>>) \o Tags(Tail(ps))

\* slice(-n): the last n entries
TakeLast(q, n) == SubSeq(q, IF Len(q) < n THEN 1 ELSE Len(q) - n + 1, Len(q))

\* Array.prototype.slice(0, n)
Take(q, n) == SubSeq(q, 1, IF Len(q) < n THEN Len(q) ELSE n)

\* setSoundAlerts(prev => [{id, text}, ...prev].slice(0, 3)), for each text
\* of ts in turn, ids counting from c
RECURSIVE AddAlerts(_, _, _)
AddAlerts(live, ts, c) ==
  IF ts = <<>> THEN live
  ELSE AddAlerts(Take(<<[id |-> c, text |-> Head(ts)]>> \o live, LiveCap),
                 Tail(ts), c + 1)

\* setAlertHistory(h => [alert, ...h].slice(0, 10)), for each text in turn
RECURSIVE AddHistory(_, _)
AddHistory(h, ts) ==
  IF ts = <<>> THEN h
  ELSE AddHistory(Take(<<Head(ts)>> \o h, HistoryCap), Tail(ts))

\* callbacks.onmessage of session i in SoundAlerts.  The id counter is a
\* ref and the timers are set whether or not the component is mounted; the
\* state setters of an unmounted component do nothing.
OnAlertMessage(i, m) ==
  /\ feature = "alerts"
  /\ session[i] = "open"
  /\ LET ts == IF m.kind = "modelTurn" THEN Tags(m.parts) ELSE <<>> IN
       /\ alertIdCounter + Len(ts) <= MaxAlerts
       /\ alertIdCounter' = alertIdCounter + Len(ts)
       /\ soundAlerts' = IF mounted THEN AddAlerts(soundAlerts, ts, alertIdCounter)
                         ELSE soundAlerts
       /\ alertHistory' = IF mounted THEN AddHistory(alertHistory, ts)
                          ELSE alertHistory
       /\ timers' = timers \cup { [id |-> alertIdCounter + k - 1, age |-> 0] :
                                    k \in 1..Len(ts) }
  /\ UNCHANGED <<feature, sendThrows, pollVars, newVars, lastTurn, unhandled, sdkDefers,
                 mounted, isListening, transcription, refs, pc, objs, audio, calls>>

\* timer t is the next to run: its delay has elapsed, and timers of equal
\* delay run in the order in which they were set
Due(t) ==
  /\ t \in timers /\ t.age >= AlertTtl
  /\ \A u \in timers : u.id >= t.id

\* a timer callback that drops the oldest live alert
AlertExpiresOldest(t) ==
  /\ Due(t)
  /\ timers' = timers \ {t}
  /\ soundAlerts' = IF mounted /\ soundAlerts # <<>>
                      THEN SubSeq(soundAlerts, 1, Len(soundAlerts) - 1)
                      ELSE soundAlerts
  /\ UNCHANGED <<alertHistory, alertIdCounter>>
  /\ UNCHANGED <<feature, sendThrows, pollVars, newVars, lastTurn, unhandled, sdkDefers,
                 mounted, isListening, transcription, refs, pc, objs, audio, calls>>

\* a timer callback that does nothing once monitoring has stopped
AlertExpiresIfListening(t) ==
  /\ Due(t)
  /\ timers' = timers \ {t}
  /\ soundAlerts' = IF mounted /\ isListening
                      THEN SelectSeq(soundAlerts, LAMBDA a : a.id # t.id)
                      ELSE soundAlerts
  /\ UNCHANGED <<alertHistory, alertIdCounter>>
  /\ UNCHANGED <<feature, sendThrows, pollVars, newVars, lastTurn, unhandled, sdkDefers,
                 mounted, isListening, transcription, refs, pc, objs, audio, calls>>

\* the timer callback of alert t.id, once AlertTtl ms have passed:
\* setSoundAlerts(prev => prev.filter(a => a.id !== newId))
AlertExpires(t) ==
  /\ Due(t)
  /\ timers' = timers \ {t}
  /\ soundAlerts' = IF mounted
                      THEN SelectSeq(soundAlerts, LAMBDA a : a.id # t.id)
                      ELSE soundAlerts
  /\ UNCHANGED <<alertHistory, alertIdCounter>>
  /\ UNCHANGED <<feature, sendThrows, pollVars, newVars, lastTurn, unhandled, sdkDefers,
                 mounted, isListening, transcription, refs, pc, objs, audio, calls>>

\* TickMs milliseconds pass while timers are pending and none is due
Tick ==
  /\ timers # {}
  /\ \A t \in timers : t.age < AlertTtl
  /\ timers' = { [t EXCEPT !.age = @ + TickMs] : t \in timers }
  /\ UNCHANGED <<soundAlerts, alertHistory, alertIdCounter>>
  /\ UNCHANGED <<feature, sendThrows, pollVars, newVars, lastTurn, unhandled, sdkDefers,
                 mounted, isListening, transcription, refs, pc, objs, audio, calls>>

\* the event loop runs a timer callback that is due
TimerFires == \E t \in timers : AlertExpires(t)

\* a message of the sound monitor arrives on session i
AlertArrives(i) ==
  \/ \E ks \in Shapes : OnAlertMessage(i, ModelTurn(ks, alertIdCounter))
  \/ OnAlertMessage(i, NoModelTurn)

AlertInit ==
  /\ Constructed
  /\ frame = Silence
  /\ sdkDefers = FALSE
  /\ sendThrows = FALSE
  /\ feature \in Features
  /\ clock = [h |-> 8, m |-> 0]

AlertNext ==
  \/ \E i \in Single : ClickStart(i)
  \/ \E i \in Single : MicGranted(i)
  \/ \E i \in Single : OnOpen(i)
  \/ \E i \in Single : AlertArrives(i)
  \/ \E i \in Single, m \in StreamMessages : OnCaption(i, m)
  \/ TimerFires
  \/ Tick
  \/ StopListening
  \/ Unmount

AlertSpec == AlertInit /\ [][AlertNext]_vars

\* -------------------------------------------------- reminder poller
\* The monitorInterval effect of src/App.tsx (lines 123-146; the App of
\* lines 306-557 and src/unnamed/part_005 poll in the same way), with the
\* planner's writes to localStorage (src/features/MedicinePlanner.tsx).

base == <<sdkDefers, mounted, isListening, transcription, refs, pc, objs,
          audio, calls, feature, sendThrows, lastTurn, unhandled, alertVars>>
supVars == <<base, newVars>>

\* addMed with the time t in the form
AddMed(t) ==
  /\ appMounted
  /\ medsAdded < MaxMeds
  /\ medsAdded' = medsAdded + 1
  /\ stored' = [present |-> TRUE,
                meds |-> Append(stored.meds,
                                [id |-> MedId(medsAdded + 1), time |-> t])]
  /\ ticks' = 0
  /\ UNCHANGED <<clock, day, triggeredMeds, activeAlarm, fired, firedDay,
                 appMounted, alarmSound, speech, supVars>>

\* removeMed of the k-th medication
RemoveMed(k) ==
  /\ appMounted
  /\ k \in 1..Len(stored.meds)
  /\ stored' = [stored EXCEPT
                  !.meds = SubSeq(@, 1, k - 1) \o SubSeq(@, k + 1, Len(@))]
  /\ ticks' = 0
  /\ UNCHANGED <<clock, day, medsAdded, triggeredMeds, activeAlarm, fired,
                 firedDay, appMounted, alarmSound, speech, supVars>>

\* the wall clock shows another minute of the same day (time passes, the
\* user sets the clock)
ClockMoves(c) ==
  /\ appMounted
  /\ c # clock
  /\ clock' = c
  /\ ticks' = 0
  /\ UNCHANGED <<stored, day, medsAdded, triggeredMeds, activeAlarm, fired,
                 firedDay, appMounted, alarmSound, speech, supVars>>

\* midnight passes; the clock next shows minute c of the following day
DayTurns(c) ==
  /\ appMounted
  /\ day < MaxDays
  /\ day' = day + 1
  /\ clock' = c
  /\ ticks' = 0
  /\ UNCHANGED <<stored, medsAdded, triggeredMeds, activeAlarm, fired,
                 firedDay, appMounted, alarmSound, speech, supVars>>

\* meds.find(m => m.time === t): <<>> or <<the first match>>
RECURSIVE Find(_, _)
Find(list, t) ==
  IF list = <<>> THEN <<>>
  ELSE IF Head(list).time = t THEN <<Head(list)>> ELSE Find(Tail(list), t)

\* dueMed of a tick at the current minute
DueMed == IF stored.present THEN Find(stored.meds, HHmm(clock)) ELSE <<>>

\* the stored medications whose time is the current minute
DueNow == {k \in 1..Len(stored.meds) : stored.meds[k].time = HHmm(clock)}

\* the set unchanged
RecordedNot(t) == triggeredMeds

\* triggeredMedsRef.current.add(t)
Recorded(t) == triggeredMeds \cup {t}

\* what stopAlarmSound leaves of the intervals and of the contexts
StoppedIntervals ==
  IF alarmIntervalRef # 0 THEN alarmIntervals \ {alarmIntervalRef}
  ELSE alarmIntervals
StoppedCtxs ==
  IF alarmAudioCtxRef # 0 THEN alarmCtxs \ {alarmAudioCtxRef} ELSE alarmCtxs

StopAlarmSound ==
  /\ alarmIntervals' = StoppedIntervals
  /\ alarmCtxs' = StoppedCtxs
  /\ alarmIntervalRef' = 0
  /\ alarmAudioCtxRef' = 0
  /\ loopsMade' = loopsMade

\* a new context and interval beside the ones that exist
PlayAlarmSoundBeside ==
  LET n == loopsMade + 1 IN
  /\ alarmCtxs' = alarmCtxs \cup {n}
  /\ alarmAudioCtxRef' = n
  /\ alarmIntervals' = alarmIntervals \cup {n}
  /\ alarmIntervalRef' = n
  /\ loopsMade' = n

\* playAlarmSound: stopAlarmSound, then a new context and a new interval
PlayAlarmSound ==
  LET n == loopsMade + 1 IN
  /\ alarmCtxs' = StoppedCtxs \cup {n}
  /\ alarmAudioCtxRef' = n
  /\ alarmIntervals' = StoppedIntervals \cup {n}
  /\ alarmIntervalRef' = n
  /\ loopsMade' = n

Least(a, b) == IF a < b THEN a ELSE b

\* one tick of monitorInterval
Poll ==
  LET t == TriggerId(DueMed[1].id, HHmm(clock)) IN
  /\ appMounted
  /\ ticks' = Least(ticks + 1, Cardinality(DueNow))
  /\ IF DueMed # <<>> /\ t \notin triggeredMeds
     THEN /\ activeAlarm' = DueMed
          /\ triggeredMeds' = Recorded(t)
          /\ PlayAlarmSound
          /\ speech' = Append(speech, "pending")
          /\ fired' = [fired EXCEPT ![<<DueMed[1].id, HHmm(clock)>>] = @ + 1]
          /\ firedDay' = [firedDay EXCEPT
                            ![<<DueMed[1].id, HHmm(clock)>>] = day]
     ELSE UNCHANGED <<activeAlarm, triggeredMeds, alarmSound, speech, fired,
                      firedDay>>
  /\ UNCHANGED <<clock, day, stored, medsAdded, appMounted, supVars>>

\* the request of the n-th speakAlarmMessage settles: a response with audio
\* data is decoded and played, one without is dropped, a failure is logged
SpeechSettles(n, outcome) ==
  /\ n \in 1..Len(speech)
  /\ speech[n] = "pending"
  /\ speech' = [speech EXCEPT ![n] = outcome]
  /\ UNCHANGED <<clock, day, ticks, stored, medsAdded, triggeredMeds,
                 activeAlarm, fired, firedDay, appMounted, alarmSound, supVars>>

\* the buffer source of the n-th spoken reminder plays to its end
SpeechEnds(n) ==
  /\ n \in 1..Len(speech)
  /\ speech[n] = "playing"
  /\ speech' = [speech EXCEPT ![n] = "ended"]
  /\ UNCHANGED <<clock, day, ticks, stored, medsAdded, triggeredMeds,
                 activeAlarm, fired, firedDay, appMounted, alarmSound, supVars>>

\* handleAlarmAcknowledge
AlarmAcknowledge ==
  /\ appMounted
  /\ activeAlarm # <<>>
  /\ StopAlarmSound
  /\ activeAlarm' = <<>>
  /\ UNCHANGED <<clock, day, ticks, stored, medsAdded, triggeredMeds, fired,
                 firedDay, appMounted, speech, supVars>>

\* the App unmounts: the effect's cleanup clears monitorInterval and calls
\* stopAlarmSound
AppUnmount ==
  /\ appMounted
  /\ appMounted' = FALSE
  /\ StopAlarmSound
  /\ UNCHANGED <<clock, day, ticks, stored, medsAdded, triggeredMeds,
                 activeAlarm, fired, firedDay, speech, supVars>>

PollInit ==
  /\ Constructed
  /\ frame = Silence
  /\ sdkDefers = FALSE
  /\ sendThrows = FALSE
  /\ feature = "captions"

\* the poller over days; the speech requests it starts stay pending
PollNext ==
  \/ \E t \in Times : AddMed(t)
  \/ \E k \in 1..MaxMeds : RemoveMed(k)
  \/ \E c \in Clocks : ClockMoves(c)
  \/ \E c \in Clocks : DayTurns(c)
  \/ Poll
  \/ AlarmAcknowledge

PollSpec == PollInit /\ [][PollNext]_vars

\* the alarm's beep loop and spoken reminder, within one day
AlarmInit ==
  /\ PollInit
  /\ clock = [h |-> 8, m |-> 0]

AlarmNext ==
  \/ \E t \in Times : AddMed(t)
  \/ \E c \in Clocks : ClockMoves(c)
  \/ Poll
  \/ \E n \in 1..MaxMeds, o \in {"playing", "silent", "failed"} :
       SpeechSettles(n, o)
  \/ \E n \in 1..MaxMeds : SpeechEnds(n)
  \/ AlarmAcknowledge
  \/ AppUnmount

AlarmSpec == AlarmInit /\ [][AlarmNext]_vars

\* -------------------------------------------------- PCM conversion
\* The loop of onaudioprocess that fills the Int16Array: SpeechToText.tsx
\* lines 79-84 for captions, TextToSpeech.tsx lines 323-327 for alerts.
\* Samples are the rationals q / SampleSteps.

\* the integer part of n / d, as the conversion of a Number to an integer
Trunc(n, d) == IF n >= 0 THEN n \div d ELSE -((-n) \div d)

\* the value an Int16Array element holds after the integer n is stored
ToInt16(n) ==
  LET m == n % 65536 IN IF m >= 32768 THEN m - 65536 ELSE m

\* Math.max(-1, Math.min(1, s))
Clamp(q) ==
  IF q > SampleSteps THEN SampleSteps
  ELSE IF q < -SampleSteps THEN -SampleSteps ELSE q

\* int16[i] = inputData[i] * 32768
EncodeCaptions(q) == ToInt16(Trunc(q * 32768, SampleSteps))

\* int16[i] = Math.max(-1, Math.min(1, inputData[i])) * 32767
EncodeAlerts(q) == ToInt16(Trunc(Clamp(q) * 32767, SampleSteps))

\* the conversion of the feature f
Encoder(f, q) == IF f = "captions" THEN EncodeCaptions(q) ELSE EncodeAlerts(q)

\* one onaudioprocess event converts its frame
Encode ==
  /\ pcm = <<>>
  /\ pcm' = [k \in 1..FrameLen |-> Encoder(feature, frame[k])]
  /\ UNCHANGED <<frame, base, pollVars, camVars, planVars, speakVars>>

EncodeInit ==
  /\ Constructed
  /\ sdkDefers = FALSE /\ sendThrows = FALSE
  /\ feature \in Features
  /\ clock = [h |-> 8, m |-> 0]

EncodeNext == Encode

EncodeSpec == EncodeInit /\ [][EncodeNext]_vars

\* -------------------------------------------------- camera module
\* The startCamera effect of CameraModule (src/unnamed/part_002 lines 23-69;
\* part_000 lines 18-34 is the same without zoom).  The effect depends on
\* [isActive, facingMode]: a change of either runs the cleanup of the
\* previous run and then the effect again.  The first run has started its
\* request when the component is constructed.

\* the cleanup of the latest run: it stops the stream its closure holds
CleanedUp(runs) ==
  [runs EXCEPT ![Len(runs)] =
     [@ EXCEPT !.cleaned = TRUE,
               !.stream = IF @ = "live" THEN "stopped" ELSE @]]

\* startCamera of a new run: returns at once when the camera is off
Started(active) ==
  [req |-> IF active THEN "pending" ELSE "none", stream |-> "none",
   cleaned |-> FALSE]

\* the on/off button: setIsActive(!isActive)
ToggleActive ==
  /\ camMounted
  /\ Len(camRuns) < MaxRuns
  /\ isActive' = ~isActive
  /\ camRuns' = Append(CleanedUp(camRuns), Started(~isActive))
  /\ UNCHANGED <<camMounted, facingMode, hasPermission, srcObject, base,
                 pollVars, encVars, planVars, speakVars>>

\* the flip button (disabled while the camera is off)
Flip ==
  /\ camMounted /\ isActive
  /\ Len(camRuns) < MaxRuns
  /\ facingMode' = IF facingMode = "environment" THEN "user" ELSE "environment"
  /\ camRuns' = Append(CleanedUp(camRuns), Started(TRUE))
  /\ UNCHANGED <<camMounted, isActive, hasPermission, srcObject, base,
                 pollVars, encVars, planVars, speakVars>>

\* getUserMedia of run k resolves: the stream is stored in the closure and
\* attached to the video element if there is one; zoomOk is false when
\* track.applyConstraints rejects, which the catch block reports like a
\* refused camera
CamGranted(k, zoomOk) ==
  /\ k \in 1..Len(camRuns)
  /\ camRuns[k].req = "pending"
  /\ camRuns' = [camRuns EXCEPT ![k].req = "granted", ![k].stream = "live"]
  /\ srcObject' = IF camMounted THEN k ELSE srcObject
  /\ hasPermission' = IF ~camMounted THEN hasPermission
                      ELSE IF zoomOk THEN "true" ELSE "false"
  /\ UNCHANGED <<camMounted, isActive, facingMode, base, pollVars, encVars, planVars, speakVars>>

\* getUserMedia of run k rejects
CamDenied(k) ==
  /\ k \in 1..Len(camRuns)
  /\ camRuns[k].req = "pending"
  /\ camRuns' = [camRuns EXCEPT ![k].req = "denied"]
  /\ hasPermission' = IF camMounted THEN "false" ELSE hasPermission
  /\ UNCHANGED <<camMounted, isActive, facingMode, srcObject, base, pollVars,
                 encVars, planVars, speakVars>>

\* the component unmounts: the cleanup of the latest run
CamUnmount ==
  /\ camMounted
  /\ camMounted' = FALSE
  /\ camRuns' = CleanedUp(camRuns)
  /\ UNCHANGED <<isActive, facingMode, hasPermission, srcObject, base,
                 pollVars, encVars, planVars, speakVars>>

CameraInit ==
  /\ Constructed
  /\ frame = Silence
  /\ sdkDefers = FALSE /\ sendThrows = FALSE
  /\ feature = "captions"
  /\ clock = [h |-> 8, m |-> 0]

CameraNext ==
  \/ ToggleActive
  \/ Flip
  \/ \E k \in 1..MaxRuns, zoomOk \in BOOLEAN : CamGranted(k, zoomOk)
  \/ \E k \in 1..MaxRuns : CamDenied(k)
  \/ CamUnmount

CameraSpec == CameraInit /\ [][CameraNext]_vars

\* -------------------------------------------------- medicine planner
\* src/features/MedicinePlanner.tsx.  The App renders the planner only
\* while its tab is selected, so it mounts and unmounts many times in the
\* life of one store.  A click handler's setMeds is rendered, and the save
\* effect run, before the next task; the setMeds of the mount effect is
\* rendered in a later step than the effects of the mount.

pollOnly == <<clock, triggeredMeds, activeAlarm, fired, day, ticks, firedDay,
              appMounted, alarmSound, speech>>

\* the tab is selected: the first render has meds = [], then both effects
\* run: the load effect queues setMeds(parsed) if the item exists, the save
\* effect writes the list of this render
PlannerMount ==
  /\ ~plannerMounted
  /\ plannerMounted' = TRUE
  /\ meds' = <<>>
  /\ pendingLoad' = IF stored.present THEN <<stored.meds>> ELSE <<>>
  /\ heldAtMount' = stored.meds
  /\ stored' = [present |-> TRUE, meds |-> <<>>]
  /\ UNCHANGED <<medsAdded, pollOnly, base, encVars, camVars, speakVars>>

\* the queued update is rendered; meds changed, so the save effect runs
PlannerLoads ==
  /\ plannerMounted /\ pendingLoad # <<>>
  /\ meds' = pendingLoad[1]
  /\ pendingLoad' = <<>>
  /\ stored' = [present |-> TRUE, meds |-> pendingLoad[1]]
  /\ UNCHANGED <<plannerMounted, heldAtMount, medsAdded, pollOnly, base,
                 encVars, camVars, speakVars>>

\* addMed; filled says whether name, time and patientName are all
\* non-empty, t is the time of the form.  The new list is built from the
\* meds of the committed render and replaces an update still queued.
PlannerAdd(filled, t) ==
  /\ plannerMounted
  /\ medsAdded < MaxMeds
  /\ filled
  /\ medsAdded' = medsAdded + 1
  /\ meds' = Append(meds, [id |-> MedId(medsAdded + 1), time |-> t])
  /\ pendingLoad' = <<>>
  /\ stored' = [present |-> TRUE, meds |-> meds']
  /\ UNCHANGED <<plannerMounted, heldAtMount, pollOnly, base, encVars,
                 camVars, speakVars>>

\* removeMed of the k-th medication shown
PlannerRemove(k) ==
  /\ plannerMounted
  /\ k \in 1..Len(meds)
  /\ meds' = SubSeq(meds, 1, k - 1) \o SubSeq(meds, k + 1, Len(meds))
  /\ pendingLoad' = <<>>
  /\ stored' = [present |-> TRUE, meds |-> meds']
  /\ UNCHANGED <<plannerMounted, heldAtMount, medsAdded, pollOnly, base,
                 encVars, camVars, speakVars>>

\* another tab is selected: the component and its queued update are gone
PlannerUnmount ==
  /\ plannerMounted
  /\ plannerMounted' = FALSE
  /\ meds' = <<>>
  /\ pendingLoad' = <<>>
  /\ UNCHANGED <<stored, heldAtMount, medsAdded, pollOnly, base, encVars,
                 camVars, speakVars>>

PlannerInit ==
  /\ Constructed
  /\ frame = Silence
  /\ sdkDefers = FALSE /\ sendThrows = FALSE
  /\ feature = "captions"
  /\ clock = [h |-> 8, m |-> 0]

PlannerNext ==
  \/ PlannerMount
  \/ PlannerLoads
  \/ \E filled \in BOOLEAN, t \in Times : PlannerAdd(filled, t)
  \/ \E k \in 1..MaxMeds : PlannerRemove(k)
  \/ PlannerUnmount

PlannerSpec == PlannerInit /\ [][PlannerNext]_vars

\* -------------------------------------------------- guarded speak
\* speakResult of src/features/ObjectRecognition.tsx (lines 130-168);
\* speakText of src/features/OCRScanner.tsx (lines 130-165) is the same
\* code on the state `text`.  The component stays mounted.

speakElse == <<base, pollVars, encVars, camVars, planVars>>

\* identifyObjects starts: setResult(null)
IdentifyStarts ==
  /\ hasResult
  /\ hasResult' = FALSE
  /\ UNCHANGED <<isSpeaking, utterances, speakCalls, speakElse>>

\* identifyObjects ends: setResult(some text), on success and on failure
IdentifyEnds ==
  /\ ~hasResult
  /\ hasResult' = TRUE
  /\ UNCHANGED <<isSpeaking, utterances, speakCalls, speakElse>>

\* a call of speakResult up to its first await
SpeakResult ==
  /\ speakCalls < MaxCalls
  /\ speakCalls' = speakCalls + 1
  /\ IF ~hasResult \/ isSpeaking
     THEN UNCHANGED <<isSpeaking, utterances>>
     ELSE /\ isSpeaking' = TRUE
          /\ utterances' = Append(utterances, "pending")
  /\ UNCHANGED <<hasResult, speakElse>>

\* the continuation that resets the flag only when the request failed
SpeakSettlesSilently(n, outcome) ==
  /\ n \in 1..Len(utterances)
  /\ utterances[n] = "pending"
  /\ utterances' = [utterances EXCEPT ![n] = outcome]
  /\ isSpeaking' = IF outcome = "failed" THEN FALSE ELSE isSpeaking
  /\ UNCHANGED <<hasResult, speakCalls, speakElse>>

\* the request of the n-th utterance settles and speakResult runs on:
\* audio data is decoded and started ("playing"), a response without audio
\* data ("silent") and a failed request or decode ("failed") reset the flag
SpeakSettles(n, outcome) ==
  /\ n \in 1..Len(utterances)
  /\ utterances[n] = "pending"
  /\ utterances' = [utterances EXCEPT ![n] = outcome]
  /\ isSpeaking' = IF outcome = "playing" THEN isSpeaking ELSE FALSE
  /\ UNCHANGED <<hasResult, speakCalls, speakElse>>

\* source.onended of the n-th utterance
PlaybackEnds(n) ==
  /\ n \in 1..Len(utterances)
  /\ utterances[n] = "playing"
  /\ utterances' = [utterances EXCEPT ![n] = "ended"]
  /\ isSpeaking' = FALSE
  /\ UNCHANGED <<hasResult, speakCalls, speakElse>>

SpeakInit ==
  /\ Constructed
  /\ frame = Silence
  /\ sdkDefers = FALSE /\ sendThrows = FALSE
  /\ feature = "captions"
  /\ clock = [h |-> 8, m |-> 0]

Settling ==
  \E n \in 1..MaxCalls, o \in {"playing", "silent", "failed"} :
    SpeakSettles(n, o)

Ending == \E n \in 1..MaxCalls : PlaybackEnds(n)

SpeakNext ==
  \/ IdentifyStarts
  \/ IdentifyEnds
  \/ SpeakResult
  \/ Settling
  \/ Ending

\* every request settles and every started playback reaches its end
SpeakSpec ==
  SpeakInit /\ [][SpeakNext]_vars /\ WF_vars(Settling) /\ WF_vars(Ending)

\* -------------------------------------------------- claims of StreamSpec

\* start i is capturing: the supervisor is Active on its resources
Capturing(i) ==
  /\ isListening /\ stream[i] = "live" /\ ctx[i] = "open"
  /\ processor[i] = "connected" /\ session[i] = "open"

\* C11: when the microphone track of a capturing start ends without a user
\* stop, the supervisor performs the full teardown of an explicit stop: the
\* session is no longer open, the processor is disconnected, the audio
\* context closed and isListening false.
C11_DeviceLossTornDown ==
  [][\A i \in Starts :
       (Capturing(i) /\ stream'[i] = "ended") =>
         /\ ~isListening' /\ session'[i] # "open"
         /\ processor'[i] # "connected" /\ ctx'[i] # "open"]_vars

\* C12: a send on a session that is no longer open, also one that throws,
\* never surfaces as an unhandled rejection, in either component.
C12_NoUnhandledRejection == ~unhandled

\* C13: the frames of a start reach its session in capture order, each
\* exactly once, also the ones queued before the connect promise resolved:
\* what was sent, followed by what still waits, is frame 1, 2, 3, ... and
\* nothing waits once the promise has resolved.
C13_FramesInCaptureOrder ==
  \A i \in Starts :
    /\ \A k \in 1..Captured(i) : (sent[i] \o queued[i])[k] = k
    /\ pc[i] = "done" => queued[i] = <<>>

\* two frames were sent through a connect promise that resolved in a later
\* task than onopen
C13_Witness ==
  \E i \in Starts : sdkDefers /\ session[i] = "open" /\ sent[i] = <<1, 2>>

\* a message that carries a non-empty inputTranscription text
Partials == {m \in StreamMessages : m.kind = "transcription" /\ m.text # <<>>}

Whitespace == {" ", "\t"}

\* C14 as stated: on a transcription event with text t the caption text
\* becomes prev + sep + t, sep being one space exactly when prev is
\* non-empty and does not end in whitespace.
C14_SeparatorUnlessWhitespace ==
  [][\A i \in Starts, m \in Partials :
       (OnCaption(i, m) /\ mounted) =>
         transcription' =
           IF transcription # <<>>
                /\ transcription[Len(transcription)] \notin Whitespace
             THEN transcription \o <<" ">> \o m.text
             ELSE transcription \o m.text]_vars

\* C14 as amended: on a transcription event with non-empty text t, received
\* by a mounted component, the caption text becomes prev + sep + t, sep being
\* one space exactly when prev is non-empty and does not end in the space
\* character ' ' (after a tab or a newline the space is inserted); events
\* are applied one by one, each to the text the previous one left.
C14_SeparatorUnlessSpace ==
  [][\A i \in Starts, m \in Partials :
       (OnCaption(i, m) /\ mounted) =>
         transcription' =
           IF transcription # <<>> /\ transcription[Len(transcription)] # " "
             THEN transcription \o <<" ">> \o m.text
             ELSE transcription \o m.text]_vars

\* a text was appended after a tab, with a space in between
C14_Witness == mounted /\ transcription = <<"\t", " ", "a">>

\* C15: once a turnComplete message has been handled, the live caption
\* buffer is empty (its trimmed text has moved to the front of the caption
\* history) until the next message.
C15_TurnCompleteFlushes == (mounted /\ lastTurn) => transcription = <<>>

\* --------------------------------------------------- claims of AlertSpec

\* the number of parts whose text contains '['
Brackets(ps) ==
  Cardinality({k \in 1..Len(ps) : \E j \in 1..Len(ps[k]) : ps[k][j] = "["})


\* C16: an inbound message changes feature state only through its payload.
\* Captioning changes the caption text only for a message with a non-empty
\* inputTranscription text; the sound monitor raises one alert for each
\* modelTurn part whose text contains '[' and none for any other part.  A
\* message without such a payload leaves caption text, alert lists, id
\* counter and timers as they are, and no message touches resources, refs
\* or isListening (no teardown).
C16_OnlyPayloadChangesState ==
  [][/\ \A i \in Starts, m \in StreamMessages :
          OnCaption(i, m) =>
            /\ m \notin Partials => transcription' = transcription
            /\ (m \in Partials /\ mounted) => transcription' # transcription
            /\ UNCHANGED <<alertVars, isListening, refs, objs, calls>>
     /\ \A i \in Starts, ks \in Shapes :
          LET m == ModelTurn(ks, alertIdCounter) IN
          OnAlertMessage(i, m) =>
            /\ alertIdCounter' = alertIdCounter + Brackets(m.parts)
            /\ Cardinality(timers') = Cardinality(timers) + Brackets(m.parts)
            /\ mounted =>
                 Len(alertHistory')
                   = Least(Len(alertHistory) + Brackets(m.parts), 10)
            /\ Brackets(m.parts) = 0 => UNCHANGED alertVars
            /\ UNCHANGED <<transcription, isListening, refs, objs, calls>>
     /\ \A i \in Starts :
          OnAlertMessage(i, NoModelTurn) =>
            UNCHANGED <<alertVars, transcription, isListening, refs, objs, calls>>]_vars

\* captioning handled a turnComplete message and kept its text
C16_Witness ==
  feature = "captions" /\ mounted /\ lastTurn /\ transcription # <<>>

\* C17: the live alert list holds at most 3 entries and the history at most
\* 10, both most-recent-first: the live ids descend, the history is the
\* (up to 10) latest alert texts, latest first, and while no timer has
\* fired the live list is the (up to 3) latest alerts.
C17_CappedMostRecentFirst ==
  mounted =>
    /\ Len(soundAlerts) <= 3 /\ Len(alertHistory) <= 10
    /\ \A k \in 1..(Len(soundAlerts) - 1) :
         soundAlerts[k].id > soundAlerts[k + 1].id
    /\ Len(alertHistory) = Least(alertIdCounter, 10)
    /\ \A k \in 1..Len(alertHistory) :
         alertHistory[k] = TagText(alertIdCounter - k)
    /\ Cardinality(timers) = alertIdCounter =>
         /\ Len(soundAlerts) = Least(alertIdCounter, 3)
         /\ \A k \in 1..Len(soundAlerts) :
              soundAlerts[k] = [id |-> alertIdCounter - k,
                                text |-> TagText(alertIdCounter - k)]

\* four alerts arrived in the same instant: the live list holds the three
\* latest, the history all four
C17_Witness ==
  /\ mounted /\ alertIdCounter = 4 /\ Cardinality(timers) = 4
  /\ \A t \in timers : t.age = 0
  /\ Len(soundAlerts) = 3 /\ soundAlerts[1].id = 3 /\ soundAlerts[3].id = 1
  /\ Len(alertHistory) = 4

\* C18: an alert on the live list was inserted less than 6 s (and one step
\* of the clock) ago: its timer is still pending.  Later arrivals and a
\* stop of the monitoring change nothing about that.
C18_LiveAlertsAreYoung ==
  mounted =>
    \A k \in 1..Len(soundAlerts) :
      \E t \in timers : t.id = soundAlerts[k].id /\ t.age < 6000 + TickMs

\* monitoring was stopped while an alert was on the list; the alert's timer
\* is now due
C18_Witness ==
  /\ mounted /\ ~isListening /\ \E i \in Starts : session[i] = "closing"
  /\ soundAlerts # <<>>
  /\ \E t \in timers : t.id = soundAlerts[1].id /\ t.age >= AlertTtl

\* C19: ids are never reused (live entries and pending timers have distinct
\* ids below the counter), and a timer callback removes exactly the live
\* entry of its own id, or nothing if that entry was evicted: every other
\* live entry, every other timer, the history and the counter stay.
C19_TimersIndependent ==
  [][/\ \A k, l \in 1..Len(soundAlerts') :
          soundAlerts'[k].id = soundAlerts'[l].id => k = l
     /\ \A t, u \in timers' : t.id = u.id => t = u
     /\ \A t \in timers' : t.id < alertIdCounter'
     /\ TimerFires =>
          \E t \in timers :
            /\ timers' = timers \ {t}
            /\ alertHistory' = alertHistory /\ alertIdCounter' = alertIdCounter
            /\ mounted =>
                 /\ Len(soundAlerts') >= Len(soundAlerts) - 1
                 /\ \A k \in 1..Len(soundAlerts) :
                      soundAlerts[k].id # t.id =>
                        \E l \in 1..Len(soundAlerts') :
                          soundAlerts'[l] = soundAlerts[k]
                 /\ \A l \in 1..Len(soundAlerts') : soundAlerts'[l].id # t.id]_vars

\* the timer of an alert that had been evicted by the cap fired: the three
\* live entries are still there
C19_Witness ==
  /\ mounted /\ alertIdCounter = 4 /\ Cardinality(timers) = 3
  /\ \A t \in timers : t.id # 0
  /\ Len(soundAlerts) = 3 /\ soundAlerts[3].id = 1

\* ---------------------------------------------------- claims of PollSpec

\* C20: the poller raises the alarm for a medication at most once per
\* (medication id, HH:MM), however many ticks observe that minute and also
\* after the alarm was acknowledged within it.
C20_AtMostOncePerMinute == \A k \in Keys : fired[k] <= 1

\* a medication fired, its alarm was acknowledged, and the clock still
\* shows its minute with the medication stored: the next tick finds it due
C20_Witness ==
  \E k \in Keys :
    /\ fired[k] = 1 /\ activeAlarm = <<>> /\ HHmm(clock) = k[2]
    /\ Find(stored.meds, k[2]) # <<>> /\ Find(stored.meds, k[2])[1].id = k[1]

\* C21: once the poller has ticked at a minute at which a stored medication
\* is the first match, that medication has raised its alarm on the current
\* day, also when it had raised one at the same HH:MM on an earlier day.
C21_FiresAgainNextDay ==
  (appMounted /\ ticks >= 1 /\ DueMed # <<>>)
    => firedDay[<<DueMed[1].id, HHmm(clock)>>] = day

\* C25: once the poller has ticked as often as there are stored medications
\* due at the current minute, each of them has raised an alarm, also when
\* several share the time.
C25_EveryDueMedFires ==
  (appMounted /\ ticks >= Cardinality(DueNow))
    => \A k \in DueNow : fired[<<stored.meds[k].id, HHmm(clock)>>] >= 1

\* C26: while an alarm is displayed, only handleAlarmAcknowledge changes
\* activeAlarm; no tick of the poller replaces or clears it.
C26_AlarmStaysUntilAcknowledged ==
  [][(activeAlarm # <<>> /\ activeAlarm' # activeAlarm) => AlarmAcknowledge]_vars

\* --------------------------------------------------- claims of AlarmSpec

\* C22: handleAlarmAcknowledge leaves no beep interval and no alarm context
\* live, leaves activeAlarm null, and leaves the spoken reminder of the
\* acknowledged alarm neither playing nor pending.
C22_AcknowledgeStopsBoth ==
  [][AlarmAcknowledge =>
       /\ alarmIntervals' = {} /\ alarmCtxs' = {} /\ activeAlarm' = <<>>
       /\ speech'[Len(speech')] \notin {"pending", "playing"}]_vars

\* C27: at most one beep interval and one alarm audio context are live, and
\* none is live while no alarm is active or after the App unmounted.
C27_AtMostOneBeepLoop ==
  /\ Cardinality(alarmIntervals) <= 1 /\ Cardinality(alarmCtxs) <= 1
  /\ alarmIntervals = alarmCtxs
  /\ (activeAlarm = <<>> \/ ~appMounted)
       => (alarmIntervals = {} /\ alarmCtxs = {})

\* a second alarm fired while the first was unacknowledged: only the second
\* loop is live
C27_Witness ==
  /\ appMounted /\ loopsMade = 2 /\ Len(speech) = 2
  /\ alarmIntervals = {2} /\ alarmCtxs = {2}

\* -------------------------------------------------- claims of EncodeSpec

\* C23: in both capturing features each emitted 16-bit value is the integer
\* part of clamp(s, -1, 1) * 32767.
C23_ClampedBeforeScaling ==
  pcm # <<>> =>
    \A k \in 1..FrameLen :
      pcm[k] = Trunc(Clamp(frame[k]) * 32767, SampleSteps)

\* -------------------------------------------- claims of Spec (continued)

\* session a was stopped and released, session b was started since and is
\* listening with every ref of the component holding b's objects
StoppedThenRestarted(a, b) ==
  /\ a # b /\ isListening
  /\ closeCalls[a] >= 1 /\ session[a] = "closing"
  /\ stream[a] = "stopped" /\ ctx[a] = "closed"
  /\ processor[a] \in {"none", "disconnected"}
  /\ streamRef = b /\ audioContextRef = b /\ processorRef = b
  /\ sessionRef = b
  /\ stream[b] = "live" /\ ctx[b] = "open" /\ processor[b] = "connected"
  /\ session[b] = "open"

\* C24: when session A was stopped, session B started after it and A's
\* close event arrives only then, B's stream, context, processor and
\* session stay live and isListening stays true.
C24_LateCloseSparesLaterSession ==
  [][\A a, b \in Starts :
       (StoppedThenRestarted(a, b) /\ OnClose(a))
         => /\ stream'[b] = "live" /\ ctx'[b] = "open"
            /\ processor'[b] = "connected" /\ session'[b] = "open"
            /\ isListening']_vars

\* -------------------------------------------------- claims of CameraSpec

\* C28: no stream of a run whose cleanup has run is live (the camera was
\* turned off or flipped, or the component unmounted, since that run
\* started), and at most one camera stream is live.
C28_NoCameraStreamLeftRunning ==
  /\ \A k \in 1..Len(camRuns) :
       camRuns[k].cleaned => camRuns[k].stream # "live"
  /\ Cardinality({k \in 1..Len(camRuns) : camRuns[k].stream = "live"}) <= 1

\* ------------------------------------------------- claims of PlannerSpec

\* C29: while the planner is mounted the store holds what it held before
\* the mount until the loaded list is rendered, and from then on exactly
\* the in-memory list.
C29_StoreFollowsPlanner ==
  plannerMounted =>
    stored.meds = (IF pendingLoad # <<>> THEN heldAtMount ELSE meds)

\* --------------------------------------------------- claims of SpeakSpec

\* C30: a call of speakResult made while isSpeaking is true starts no
\* request, and whenever isSpeaking is true it becomes false again: when
\* playback ends, when the response has no audio data, and when the request
\* or the decoding fails.
C30_GuardedSpeakResets ==
  /\ [][(SpeakResult /\ isSpeaking) => utterances' = utterances]_vars
  /\ (isSpeaking ~> ~isSpeaking)

\* three calls started a request, one for each outcome, a call made while
\* speaking started none, and the flag is false again
C30_Witness ==
  /\ ~isSpeaking
  /\ {utterances[n] : n \in 1..Len(utterances)} = {"ended", "silent", "failed"}
  /\ speakCalls > Len(utterances)
====
